---- MODULE Spec2Model ----
\* Model of the Game-of-Life Universe of src/src/lib.rs.
\* Cells are stored as the flat row-major Vec<Cell> of the code, a sequence of
\* the #[repr(u8)] values Dead = 0, Alive = 1 (index i of the code is i+1 here).
EXTENDS Integers, Naturals, Sequences, FiniteSets, TLC

Dead == 0
Alive == 1

\* Default dimensions set by Universe::new
DefaultWidth == 64
DefaultHeight == 64

\* Exploration bounds
MaxDim == 2
MaxCoord == 1
MaxSteps == 2

Min(a, b) == IF a < b THEN a ELSE b

-----------------------------------------------------------------------------
\* u32 arithmetic.  A u32 value is held as a pair << hi, lo >> of 16-bit limbs.
\* The build is either "debug" (arithmetic overflow panics) or "release"
\* (arithmetic wraps modulo 2^32).  Values below 2^31 convert to integers; a
\* value of 2^31 or more converts to Big: on wasm32 no Vec has 2^31 elements
\* (isize::MAX), so such an index is always out of bounds.

B16 == 2^16
Big == -1

Builds == { "debug", "release" }

\* The profile is not observable until some arithmetic overflows; it is left
\* "unknown" until then and fixed at the first overflow.
BuildsFor(bl) == IF bl = "unknown" THEN Builds ELSE { bl }

U(x) == << x \div B16, x % B16 >>

Val(p) == IF p[1] < 2^15 THEN p[1] * B16 + p[2] ELSE Big

AddP(p, q) ==
  LET lo == p[2] + q[2] IN << (p[1] + q[1] + lo \div B16) % B16, lo % B16 >>

AddOv(p, q) == p[1] + q[1] + (p[2] + q[2]) \div B16 >= B16

SubP(p, q) ==
  LET lo == p[2] - q[2]
      borrow == IF lo < 0 THEN 1 ELSE 0
  IN  << (p[1] - q[1] - borrow + B16) % B16, (lo + B16) % B16 >>

SubOv(p, q) == p[1] < q[1] \/ (p[1] = q[1] /\ p[2] < q[2])

\* full product of two 16-bit limbs, as a pair
Mul16(a, b) ==
  LET t == (a % 256) * b
      u == (a \div 256) * b
      lo == (t % B16) + (u % 256) * 256
  IN  << t \div B16 + u \div 256 + lo \div B16, lo % B16 >>

MulP(p, q) ==
  LET ll == Mul16(p[2], q[2])
  IN  << (ll[1] + Mul16(p[1], q[2])[2] + Mul16(p[2], q[1])[2]) % B16, ll[2] >>

MulOv(p, q) ==
  LET ll == Mul16(p[2], q[2])
      x == Mul16(p[1], q[2])
      y == Mul16(p[2], q[1])
  IN  \/ (p[1] > 0 /\ q[1] > 0)
      \/ x[1] > 0 \/ y[1] > 0
      \/ ll[1] + x[2] + y[2] >= B16

\* width * height as computed by the code, and whether it overflows
Area(w, h) == Val(MulP(U(w), U(h)))
AreaOv(w, h) == MulOv(U(w), U(h))

\* (x + d) % n for x < n, d < n, computed without the intermediate sum
AddMod(x, d, n) == IF x >= n - d THEN x - (n - d) ELSE x + d

-----------------------------------------------------------------------------

\* Cell::toggle
Toggle(cell) == IF cell = Alive THEN Dead ELSE Alive

\* Universe::get_index on u32 pairs: row * self.width + col
GetIndexP(w, rowP, colP) == AddP(MulP(rowP, U(w)), colP)
GetIndexOvP(w, rowP, colP) ==
  MulOv(rowP, U(w)) \/ AddOv(MulP(rowP, U(w)), colP)

\* Universe::get_index: (row * self.width + col) as usize, the release value
\* (Big when it is 2^31 or more); exact integer arithmetic when it is small.
GetIndex(w, row, col) ==
  IF row < 2^15 /\ w < 2^15 /\ col < B16 THEN row * w + col
  ELSE Val(GetIndexP(w, U(row), U(col)))

\* whether get_index overflows u32 (a panic in a debug build)
GetIndexOv(w, row, col) ==
  IF row < 2^15 /\ w < 2^15 /\ col < B16 THEN FALSE
  ELSE GetIndexOvP(w, U(row), U(col))

\* Mutant: neighbour coordinates clamped to the grid instead of wrapped
NeighAliveCountMut(c, w, h, row, col) ==
  LET drs == << h - 1, 0, 1 >>
      dcs == << w - 1, 0, 1 >>
      Term(i, j) ==
        IF drs[i] = 0 /\ dcs[j] = 0 THEN 0
        ELSE c[GetIndex(w, AddMod(row, drs[i], h), Min(col + dcs[j], w - 1)) + 1]
  IN  Term(1,1) + Term(1,2) + Term(1,3) + Term(2,1) + Term(2,2) + Term(2,3)
      + Term(3,1) + Term(3,2) + Term(3,3)

\* The neighbour positions read by neigh_alive_count: d_row over
\* [height-1, 0, 1], d_col over [width-1, 0, 1], skipping d_row == 0 &&
\* d_col == 0; n_row = (row + d_row) % height, n_col = (col + d_col) % width.
\* (row + d_row cannot overflow u32 for height < 2^31.)
NeighPositions(w, h, row, col) ==
  LET drs == << h - 1, 0, 1 >>
      dcs == << w - 1, 0, 1 >>
  IN  [k \in 1..9 |->
         LET i == (k - 1) \div 3 + 1
             j == ((k - 1) % 3) + 1
         IN  IF drs[i] = 0 /\ dcs[j] = 0 THEN << >>
             ELSE << AddMod(row, drs[i], h), AddMod(col, dcs[j], w) >>]

\* Universe::neigh_alive_count: d_row takes the values height-1, 0, 1 (rows
\* R1, R2, R3), d_col the values width-1, 0, 1 (columns C1, C2, C3); a pair
\* whose d_row and d_col are both 0 is skipped.
NeighAliveCount(c, w, h, row, col) ==
  LET R1 == AddMod(row, h - 1, h)  R2 == row  R3 == AddMod(row, 1, h)
      C1 == AddMod(col, w - 1, w)  C2 == col  C3 == AddMod(col, 1, w)
      z1 == h - 1 = 0              y1 == w - 1 = 0
      At(r, k) == c[GetIndex(w, r, k) + 1]
  IN  (IF z1 /\ y1 THEN 0 ELSE At(R1, C1)) + (IF z1 THEN 0 ELSE At(R1, C2))
      + At(R1, C3)
      + (IF y1 THEN 0 ELSE At(R2, C1)) + At(R2, C3)
      + At(R3, C1) + At(R3, C2) + At(R3, C3)

\* Mutant: a live cell with 3 neighbours dies
FutureCellMut(cell, n) ==
  IF cell = Alive /\ n < 2 THEN Dead
  ELSE IF cell = Alive /\ n = 2 THEN Alive
  ELSE IF cell = Alive /\ n > 2 THEN Dead
  ELSE IF cell = Dead /\ n = 3 THEN Alive
  ELSE cell

\* The match of Universe::tick on (cell, alive_count)
FutureCell(cell, n) ==
  IF cell = Alive /\ n < 2 THEN Dead
  ELSE IF cell = Alive /\ (n = 2 \/ n = 3) THEN Alive
  ELSE IF cell = Alive /\ n > 3 THEN Dead
  ELSE IF cell = Dead /\ n = 3 THEN Alive
  ELSE cell

\* Mutant: the grid updated in place, later cells seeing updated neighbours
RECURSIVE InPlaceTick(_, _, _, _)
InPlaceTick(c, w, h, i) ==
  IF i > Len(c) THEN c
  ELSE InPlaceTick([c EXCEPT ![i] = FutureCell(c[i], NeighAliveCount(c, w, h, (i - 1) \div w, (i - 1) % w))],
                   w, h, i + 1)

TickCellsMut(c, w, h) == InPlaceTick(c, w, h, 1)

\* The buffer has exactly width * height cells and width * height fits in u32:
\* the loop of tick then visits every index 0..len-1 once, in bounds.
TickExact(c, w, h) == ~AreaOv(w, h) /\ Area(w, h) = Len(c)

\* Universe::tick panics when some visited index or neighbour index is out of
\* bounds, or (debug) overflows; only possible when TickExact fails.
TickPanics(c, w, h, b) ==
  /\ ~TickExact(c, w, h)
  /\ \E row \in 0..(h - 1), col \in 0..(w - 1) :
       \E pos \in { << row, col >> } \cup
                  ({ NeighPositions(w, h, row, col)[k] : k \in 1..9 } \ { << >> }) :
         LET i == GetIndex(w, pos[1], pos[2])
         IN  \/ (b = "debug" /\ GetIndexOv(w, pos[1], pos[2]))
             \/ i = Big \/ i >= Len(c)

\* Universe::tick: future = cells.clone(); for row in 0..height, col in 0..width
\* future[get_index(row, col)] is computed from the current cells only
\* (the last visit of an index wins); then cells = future.
TickCells(c, w, h) ==
  IF TickExact(c, w, h)
  THEN [i \in DOMAIN c |->
          FutureCell(c[i], NeighAliveCount(c, w, h, (i - 1) \div w, (i - 1) % w))]
  ELSE [i \in DOMAIN c |->
          LET V == { v \in (0..(h - 1)) \X (0..(w - 1)) : GetIndex(w, v[1], v[2]) = i - 1 }
          IN  IF V = {} THEN c[i]
              ELSE LET last == CHOOSE v \in V : \A x \in V :
                                 x[1] < v[1] \/ (x[1] = v[1] /\ x[2] <= v[2])
                   IN  FutureCell(c[i], NeighAliveCount(c, w, h, last[1], last[2]))]

\* (0..n).map(|_i| Cell::Dead).collect()
DeadCells(n) == [i \in 1..n |-> Dead]

\* Mutant: the first cell is not cleared
ClearCellsMut(c) == [i \in DOMAIN c |-> IF i = 1 THEN c[i] ELSE Dead]

\* Universe::clear: vec![Cell::Dead; self.cells.len()]
ClearCells(c) == [i \in DOMAIN c |-> Dead]

\* A write: << row pair, col pair, value, the coordinates overflowed >>
Wr(rowP, colP, v, ov) == << rowP, colP, v, ov >>

\* Mutant: the centre cell is written Alive
GliderWritesMut(row, col) ==
  LET r == U(row)  c == U(col)  one == U(1)
      rm == SubP(r, one)  rp == AddP(r, one)  cm == SubP(c, one)  cp == AddP(c, one)
      rmo == SubOv(r, one)  rpo == AddOv(r, one)  cmo == SubOv(c, one)  cpo == AddOv(c, one)
  IN  << Wr(rm, cm, Dead, rmo \/ cmo), Wr(rm, c, Alive, rmo), Wr(rm, cp, Dead, rmo \/ cpo),
         Wr(r, cm, Dead, cmo), Wr(r, c, Alive, FALSE), Wr(r, cp, Alive, cpo),
         Wr(rp, cm, Alive, rpo \/ cmo), Wr(rp, c, Alive, rpo), Wr(rp, cp, Alive, rpo \/ cpo) >>

\* Universe::insert_glider: the nine writes, centred at (row, col), in code
\* order, with the u32 arithmetic row - 1, row + 1, col - 1, col + 1
GliderWrites(row, col) ==
  LET r == U(row)  c == U(col)  one == U(1)
      rm == SubP(r, one)  rp == AddP(r, one)  cm == SubP(c, one)  cp == AddP(c, one)
      rmo == SubOv(r, one)  rpo == AddOv(r, one)  cmo == SubOv(c, one)  cpo == AddOv(c, one)
  IN  << Wr(rm, cm, Dead, rmo \/ cmo), Wr(rm, c, Alive, rmo), Wr(rm, cp, Dead, rmo \/ cpo),
         Wr(r, cm, Dead, cmo), Wr(r, c, Dead, FALSE), Wr(r, cp, Alive, cpo),
         Wr(rp, cm, Alive, rpo \/ cmo), Wr(rp, c, Alive, rpo), Wr(rp, cp, Alive, rpo \/ cpo) >>

\* The writes in order: self.cells[get_index(row, col)] = value.  A write whose
\* coordinate or index arithmetic overflows (debug) or whose index is out of
\* bounds panics, the earlier writes having been made.
RECURSIVE ApplyWrites(_, _, _, _)
ApplyWrites(c, w, ws, b) ==
  IF ws = << >> THEN [cells |-> c, panicked |-> FALSE]
  ELSE LET wr == Head(ws)
           i == Val(GetIndexP(w, wr[1], wr[2]))
       IN  IF \/ (b = "debug" /\ (wr[4] \/ GetIndexOvP(w, wr[1], wr[2])))
              \/ i = Big \/ i >= Len(c)
           THEN [cells |-> c, panicked |-> TRUE]
           ELSE ApplyWrites([c EXCEPT ![i + 1] = wr[3]], w, Tail(ws), b)

\* some write of ws overflows in its coordinate or index arithmetic
WritesOv(w, ws) == \E k \in DOMAIN ws : ws[k][4] \/ GetIndexOvP(w, ws[k][1], ws[k][2])

InsertGliderCells(c, w, row, col, b) == ApplyWrites(c, w, GliderWrites(row, col), b)

\* Universe::set_cells: each (row, col) of the list is set Alive in order
SetCellsCells(c, w, list, b) ==
  ApplyWrites(c, w, [k \in DOMAIN list |-> Wr(U(list[k][1]), U(list[k][2]), Alive, FALSE)], b)

SetCellsOv(w, list) ==
  WritesOv(w, [k \in DOMAIN list |-> Wr(U(list[k][1]), U(list[k][2]), Alive, FALSE)])

\* fmt::Display for Universe: cells.chunks(width), each cell written as its
\* glyph, each chunk followed by "\n"; bytes are the UTF-8 encoding.
DeadGlyph == << 226, 151, 187 >>   \* U+25FB
AliveGlyph == << 226, 151, 188 >>  \* U+25FC
Newline == 10

Glyph(cell) == IF cell = Dead THEN DeadGlyph ELSE AliveGlyph

\* slice::chunks(n): consecutive chunks of n elements, the last one shorter
Chunks(s, n) ==
  LET k == (Len(s) + n - 1) \div n
  IN  [j \in 1..k |-> SubSeq(s, (j - 1) * n + 1, Min(j * n, Len(s)))]

\* Mutant: the line is not terminated by a newline
WriteLineMut(line) ==
  [j \in 1..(3 * Len(line)) |-> Glyph(line[((j - 1) \div 3) + 1])[((j - 1) % 3) + 1]]

\* for &cell in line { write!(f, "{}", sym) } followed by write!(f, "\n")
WriteLine(line) ==
  [j \in 1..(3 * Len(line) + 1) |->
     IF j = 3 * Len(line) + 1 THEN Newline
     ELSE Glyph(line[((j - 1) \div 3) + 1])[((j - 1) % 3) + 1]]

RECURSIVE WriteLines(_, _)
WriteLines(ls, k) ==
  IF k = 0 THEN << >> ELSE WriteLines(ls, k - 1) \o WriteLine(ls[k])

Render(c, w) == LET ls == Chunks(c, w) IN WriteLines(ls, Len(ls))

-----------------------------------------------------------------------------
\* The Universe and the call just made on it

\* build is the build profile ("unknown" until an overflow has happened).
\* lastOp, prevWidth, prevHeight, prevCells, origin and steps are history:
\* the last call made, the Universe before it, the centre (or corner) of the
\* last pattern placed, and the number of calls.
\* panicked: the last call panicked.  On wasm32 a panic traps; the
\* wasm-bindgen borrow flag of the Universe is then never released, so every
\* later call on it throws without running: no step follows a panic.
VARIABLES width, height, cells, lastOp, panicked, prevWidth, prevHeight,
          prevCells, out, origin, steps, build

vars == << width, height, cells, lastOp, panicked, prevWidth, prevHeight,
           prevCells, out, origin, steps, build >>

\* Universe::new: 64 x 64, cell i Alive iff the i-th Math.random() > 0.5, each
\* draw independent: every grid of 4096 cells is a possible outcome.
InitFills == [1..(DefaultWidth * DefaultHeight) -> {Dead, Alive}]

Init ==
  /\ width = DefaultWidth
  /\ height = DefaultHeight
  /\ cells \in InitFills
  /\ lastOp = [op |-> "new", a |-> 0, b |-> 0]
  /\ panicked = FALSE
  /\ prevWidth = DefaultWidth
  /\ prevHeight = DefaultHeight
  /\ prevCells = cells
  /\ out = << >>
  /\ origin = << >>
  /\ steps = 0
  /\ build = "unknown"

Call(op, a, b) ==
  /\ ~panicked
  /\ steps' = steps + 1
  /\ lastOp' = [op |-> op, a |-> a, b |-> b]
  /\ prevWidth' = width
  /\ prevHeight' = height
  /\ prevCells' = cells

\* The profiles a call may run under: when it overflows (ov) and the profile
\* is still unknown, either; otherwise one (the outcome does not depend on it).
CallBuilds(ov) == IF ov THEN BuildsFor(build) ELSE { IF build = "unknown" THEN "release" ELSE build }

\* The profile b used by a call; it is fixed when the call overflows (ov).
UseBuild(b, ov) == build' = IF ov THEN b ELSE build

\* Universe::tick
tick == \E b \in CallBuilds(~TickExact(cells, width, height)) :
  /\ Call("tick", 0, 0)
  /\ UseBuild(b, ~TickExact(cells, width, height))
  /\ IF TickPanics(cells, width, height, b)
     THEN cells' = cells /\ panicked' = TRUE
     ELSE cells' = TickCells(cells, width, height) /\ panicked' = FALSE
  /\ UNCHANGED << width, height, out, origin >>

\* In-range coordinates explored along a dimension of size n
Coords(n) == { k \in 0..MaxCoord : k < n }

\* Dimensions passed to set_width / set_height
Dims == 1..MaxDim

\* A row whose get_index on a 64-wide grid is 2^32: it wraps to col
OverflowRow == 2^26

\* Universe::toggle_cell(row, col): cells[get_index(row, col)].toggle(); an
\* index past the end of the Vec, or (debug) an overflowing get_index, panics
\* and the call aborts without writing.
ToggleCell(row, col) == \E b \in CallBuilds(GetIndexOv(width, row, col)) :
  LET i == GetIndex(width, row, col) IN
  /\ Call("toggle_cell", row, col)
  /\ UseBuild(b, GetIndexOv(width, row, col))
  /\ IF (b = "debug" /\ GetIndexOv(width, row, col)) \/ i = Big \/ i >= Len(cells)
     THEN /\ cells' = cells
          /\ panicked' = TRUE
     ELSE /\ cells' = [cells EXCEPT ![i + 1] = Toggle(cells[i + 1])]
          /\ panicked' = FALSE
  /\ UNCHANGED << width, height, out, origin >>

toggle_cell ==
  \E rc \in ({ <<r, c>> : r \in Coords(height), c \in Coords(width) }
            \cup { <<height, 0>>, <<0, width>>, <<OverflowRow, 0>> }) :
    ToggleCell(rc[1], rc[2])

\* Universe::clear
clear ==
  /\ Call("clear", 0, 0)
  /\ UNCHANGED build
  /\ cells' = ClearCells(cells)
  /\ panicked' = FALSE
  /\ UNCHANGED << width, height, out, origin >>

\* Universe::set_cells with a list of one or two in-range (row, col) pairs
set_cells ==
  \E p, q \in { <<r, c>> : r \in Coords(height), c \in Coords(width) } :
    \E list \in { << p >>, << p, q >> } : \E b \in CallBuilds(SetCellsOv(width, list)) :
      LET res == SetCellsCells(cells, width, list, b) IN
      /\ GetIndex(width, p[1], p[2]) <= GetIndex(width, q[1], q[2])
      /\ Call("set_cells", p, q)
      /\ UseBuild(b, SetCellsOv(width, list))
      /\ cells' = res.cells
      /\ panicked' = res.panicked
      /\ UNCHANGED << width, height, out, origin >>

\* Universe::insert_glider(row, col) at a centre with row >= 1, col >= 1,
\* row + 1 < height, col + 1 < width
InsertGlider(row, col) == \E b \in CallBuilds(WritesOv(width, GliderWrites(row, col))) :
  LET res == InsertGliderCells(cells, width, row, col, b) IN
  /\ row >= 1 /\ col >= 1
  /\ row + 1 < height
  /\ col + 1 < width
  /\ Call("insert_glider", row, col)
  /\ UseBuild(b, WritesOv(width, GliderWrites(row, col)))
  /\ cells' = res.cells
  /\ panicked' = res.panicked
  /\ origin' = << row, col >>
  /\ UNCHANGED << width, height, out >>

insert_glider == \E row, col \in 1..MaxCoord : InsertGlider(row, col)

\* Universe::set_width(w): self.width = w, then the buffer of w * height Dead
\* cells.  The product overflows u32: debug panics (width already stored);
\* release wraps.  A length of 2^31 or more exceeds isize::MAX on wasm32 and
\* the collect panics with a capacity overflow.
SetWidth(w) == \E b \in CallBuilds(AreaOv(w, height)) :
  LET n == Area(w, height) IN
  /\ Call("set_width", w, 0)
  /\ UseBuild(b, AreaOv(w, height))
  /\ width' = w
  /\ IF (b = "debug" /\ AreaOv(w, height)) \/ n = Big
     THEN cells' = cells /\ panicked' = TRUE
     ELSE cells' = DeadCells(n) /\ panicked' = FALSE
  /\ UNCHANGED << height, out, origin >>

set_width == \E w \in Dims : SetWidth(w)

\* Universe::set_height(h), as set_width
SetHeight(h) == \E b \in CallBuilds(AreaOv(width, h)) :
  LET n == Area(width, h) IN
  /\ Call("set_height", h, 0)
  /\ UseBuild(b, AreaOv(width, h))
  /\ height' = h
  /\ IF (b = "debug" /\ AreaOv(width, h)) \/ n = Big
     THEN cells' = cells /\ panicked' = TRUE
     ELSE cells' = DeadCells(n) /\ panicked' = FALSE
  /\ UNCHANGED << width, out, origin >>

set_height == \E h \in Dims : SetHeight(h)

\* Universe::render: self.to_string()
render ==
  /\ Call("render", 0, 0)
  /\ UNCHANGED build
  /\ out' = Render(cells, width)
  /\ panicked' = FALSE
  /\ UNCHANGED << width, height, cells, origin >>

Next == steps < MaxSteps /\ (tick \/ toggle_cell \/ clear \/ set_cells \/ insert_glider
        \/ set_width \/ set_height \/ render)

Spec == Init /\ [][Next]_vars

-----------------------------------------------------------------------------
\* One resize, including a dimension whose u32 product with the other one
\* wraps around 2^32 to a small length, then one call of clear, render or
\* toggle_cell

\* Wrapping inputs: 64 * (2^26 + 1) = 2^32 + 64 and 3 * 1431655766 = 2^32 + 2
WrapCandidates == { 2^26 + 1, 1431655766 }

WrapDims(n) == { x \in WrapCandidates : AreaOv(x, n) /\ Area(x, n) \in 0..n }

ResizeNext ==
  \/ steps = 0 /\ ((\E w \in Dims \cup WrapDims(height) : SetWidth(w))
                   \/ (\E h \in Dims \cup WrapDims(width) : SetHeight(h)))
  \/ steps = 1 /\ (clear \/ render \/ toggle_cell)

ResizeSpec == Init /\ [][ResizeNext]_vars

-----------------------------------------------------------------------------
\* tick and neigh_alive_count applied to every grid of small dimensions

TickMaxDim == 3

AllGrids(w, h) == [1..(w * h) -> {Dead, Alive}]

\* Each such grid is a state of the program: from new(), set_width(w) and
\* set_height(h) give a Dead w x h grid and toggle_cell sets any cell.
GridInit ==
  /\ width \in 1..TickMaxDim
  /\ height \in 1..TickMaxDim
  /\ cells \in AllGrids(width, height)
  /\ lastOp = [op |-> "new", a |-> 0, b |-> 0]
  /\ panicked = FALSE
  /\ prevWidth = width
  /\ prevHeight = height
  /\ prevCells = cells
  /\ out = << >>
  /\ origin = << >>
  /\ steps = 0
  /\ build = "unknown"

TickSpec == GridInit /\ [][steps < MaxSteps /\ tick]_vars

\* ResizeNext from every grid of small dimensions
GridResizeSpec == GridInit /\ [][ResizeNext]_vars

\* One toggle_cell from every grid of small dimensions
GridToggleSpec == GridInit /\ [][steps < 1 /\ toggle_cell]_vars

\* neigh_alive_count(row, col) evaluated on the current grid, result in out
neigh_count ==
  \E row \in 0..(height - 1), col \in 0..(width - 1) :
    /\ Call("neigh_alive_count", row, col)
    /\ out' = << NeighAliveCount(cells, width, height, row, col) >>
    /\ UNCHANGED << width, height, cells, panicked, origin, build >>

NeighSpec == GridInit /\ [][steps < 1 /\ neigh_count]_vars

\* clear and render from every grid of small dimensions, two calls

EditSpec == GridInit /\ [][steps < 2 /\ (clear \/ render)]_vars

-----------------------------------------------------------------------------
\* insert_glider at every valid centre of grids from 3x3 to StampMaxDim square,
\* whose cells are all Alive or all Dead except for up to StampDiff cells

StampMaxDim == 5
StampDiff == 2

RECURSIVE Subsets(_, _)
Subsets(n, k) ==
  IF k = 0 THEN { {} }
  ELSE Subsets(n, k - 1) \cup { T \cup { x } : T \in Subsets(n, k - 1), x \in 1..n }

NearUniform(n, k) ==
  { [i \in 1..n |-> IF i \in S THEN Toggle(v) ELSE v] : v \in {Dead, Alive}, S \in Subsets(n, k) }

StampInit ==
  /\ width \in 3..StampMaxDim
  /\ height \in 3..StampMaxDim
  /\ cells \in NearUniform(width * height, StampDiff)
  /\ lastOp = [op |-> "new", a |-> 0, b |-> 0]
  /\ panicked = FALSE
  /\ prevWidth = width
  /\ prevHeight = height
  /\ prevCells = cells
  /\ out = << >>
  /\ origin = << >>
  /\ steps = 0
  /\ build = "unknown"

StampNext ==
  steps < 1 /\ \E row \in 1..(height - 2), col \in 1..(width - 2) : InsertGlider(row, col)

StampSpec == StampInit /\ [][StampNext]_vars

-----------------------------------------------------------------------------
\* A glider inserted on an otherwise Dead grid (the state left by set_width and
\* set_height), then ticked four times

GliderMinDim == 8
GliderMaxDim == 9

DeadGridInit(dims) ==
  /\ width \in dims
  /\ height \in dims
  /\ cells = DeadCells(width * height)
  /\ lastOp = [op |-> "set_height", a |-> height, b |-> 0]
  /\ panicked = FALSE
  /\ prevWidth = width
  /\ prevHeight = height
  /\ prevCells = cells
  /\ out = << >>
  /\ origin = << >>
  /\ steps = 0
  /\ build = "unknown"

GliderNext ==
  \/ steps = 0 /\ \E row \in 1..(height - 2), col \in 1..(width - 2) : InsertGlider(row, col)
  \/ steps >= 1 /\ steps <= 4 /\ tick

GliderSpec == DeadGridInit(GliderMinDim..GliderMaxDim) /\ [][GliderNext]_vars

-----------------------------------------------------------------------------
\* A 2x2 block set Alive (set_cells) on an otherwise Dead grid, then one tick

BlockMinDim == 4
BlockMaxDim == 8

BlockCells(w, h, r, c) ==
  SetCellsCells(DeadCells(w * h), w,
                << <<r, c>>, <<r, (c + 1) % w>>, <<(r + 1) % h, c>>,
                   <<(r + 1) % h, (c + 1) % w>> >>, "release").cells

BlockInit ==
  /\ width \in BlockMinDim..BlockMaxDim
  /\ height \in BlockMinDim..BlockMaxDim
  /\ origin \in { <<r, c>> : r \in 0..(height - 1), c \in 0..(width - 1) }
  /\ cells = BlockCells(width, height, origin[1], origin[2])
  /\ lastOp = [op |-> "set_cells", a |-> origin[1], b |-> origin[2]]
  /\ panicked = FALSE
  /\ prevWidth = width
  /\ prevHeight = height
  /\ prevCells = cells
  /\ out = << >>
  /\ steps = 0
  /\ build = "unknown"

BlockSpec == BlockInit /\ [][steps < 1 /\ tick]_vars

-----------------------------------------------------------------------------
\* Reference Game of Life on the torus, independent of the code's arithmetic

OffsetList == << <<-1, -1>>, <<-1, 0>>, <<-1, 1>>, <<0, -1>>, <<0, 1>>,
                 <<1, -1>>, <<1, 0>>, <<1, 1>> >>

Wrap(x, n) == ((x % n) + n) % n

\* Number of Alive cells among the 8 positions ((row+dr) mod h, (col+dc) mod w)
RefCount(c, w, h, row, col) ==
  LET At(k) == c[Wrap(row + OffsetList[k][1], h) * w + Wrap(col + OffsetList[k][2], w) + 1]
  IN  At(1) + At(2) + At(3) + At(4) + At(5) + At(6) + At(7) + At(8)

RefRule(cell, n) == IF n = 3 \/ (cell = Alive /\ n = 2) THEN Alive ELSE Dead

RefTick(c, w, h) ==
  [i \in DOMAIN c |-> RefRule(c[i], RefCount(c, w, h, (i - 1) \div w, (i - 1) % w))]

AllDead(c) == \A i \in DOMAIN c : c[i] = Dead


-----------------------------------------------------------------------------
\* Properties

\* n = w * h, decided without forming the product
LenIs(n, w, h) == w >= 1 /\ n % w = 0 /\ n \div w = h

\* C1: from new(), after any sequence of calls that return, cells has exactly
\* width * height elements.
C1_LengthInvariant == ~panicked => LenIs(Len(cells), width, height)

C1_Witness == steps = MaxSteps /\ width # height

\* C2 (as stated): for every grid with width, height >= 1, tick yields the
\* standard rule applied to the pre-tick 8-position toroidal neighbour count.
C2_TickRuleAnyDims == lastOp.op = "tick" => cells = RefTick(prevCells, width, height)

\* C2 (amended): for width, height >= 2, tick yields the standard rule applied
\* to the pre-tick toroidal neighbour counts of every cell.
C2_TickRule ==
  (lastOp.op = "tick" /\ width >= 2 /\ height >= 2)
    => cells = RefTick(prevCells, width, height)

C2_Witness ==
  lastOp.op = "tick" /\ steps = 2 /\ width = 3 /\ height = 3 /\ cells # prevCells

NeighOk(minDim) ==
  (lastOp.op = "neigh_alive_count" /\ width >= minDim /\ height >= minDim)
    => LET n == out[1]
           i == lastOp.a * width + lastOp.b + 1
       IN  /\ n = RefCount(cells, width, height, lastOp.a, lastOp.b)
           /\ n \in 0..8
           /\ n = NeighAliveCount([cells EXCEPT ![i] = Toggle(cells[i])],
                                  width, height, lastOp.a, lastOp.b)

\* C3 (as stated): for all width, height >= 1, neigh_alive_count equals the
\* number of Alive cells among the 8 toroidal positions, lies in [0,8] and
\* does not depend on the cell itself.
C3_NeighCountAnyDims == NeighOk(1)

\* C3 (amended): the same for width, height >= 2.
C3_NeighCount == NeighOk(2)

C3_Witness ==
  /\ lastOp.op = "neigh_alive_count" /\ lastOp.a = 0 /\ width = 3 /\ height = 3
  /\ cells[(height - 1) * width + lastOp.b + 1] = Alive

\* C4: toggle_cell(height, 0) and toggle_cell(0, width) fail out of bounds and
\* modify no cell.
C4_ToggleOutOfBounds ==
  (lastOp.op = "toggle_cell" /\ (lastOp.a = prevHeight \/ lastOp.b = prevWidth))
    => (panicked /\ cells = prevCells)

GliderAt(w, h, r, c) ==
  LET alive == { <<Wrap(r - 1, h), Wrap(c, w)>>, <<Wrap(r, h), Wrap(c + 1, w)>>,
                 <<Wrap(r + 1, h), Wrap(c - 1, w)>>, <<Wrap(r + 1, h), Wrap(c, w)>>,
                 <<Wrap(r + 1, h), Wrap(c + 1, w)>> }
  IN  [i \in 1..(w * h) |-> IF <<(i - 1) \div w, (i - 1) % w>> \in alive THEN Alive ELSE Dead]

\* C5: a glider inserted alone on a grid of at least 8x8, after four ticks, is
\* the same glider shifted by (+1, +1) on the torus, all other cells Dead.
C5_GliderTranslates ==
  steps = 5
    => cells = GliderAt(width, height, origin[1] + 1, origin[2] + 1)

C5_Witness ==
  steps = 5 /\ origin[1] = height - 2 /\ origin[2] = width - 2

GliderPattern == << <<Dead, Alive, Dead>>, <<Dead, Dead, Alive>>, <<Alive, Alive, Alive>> >>

\* C6: insert_glider(row, col) writes the glider into the 3x3 block centred at
\* (row, col) and leaves every other cell unchanged.
C6_GliderStamp ==
  lastOp.op = "insert_glider"
    => /\ Len(cells) = Len(prevCells)
       /\ \A i \in DOMAIN cells :
            LET dr == ((i - 1) \div width) - lastOp.a
                dc == ((i - 1) % width) - lastOp.b
            IN  IF dr \in -1..1 /\ dc \in -1..1
                THEN cells[i] = GliderPattern[dr + 2][dc + 2]
                ELSE cells[i] = prevCells[i]

C6_Witness ==
  /\ lastOp.op = "insert_glider" /\ width # height
  /\ lastOp.a = height - 2 /\ lastOp.b = width - 2
  /\ \E i \in DOMAIN prevCells : prevCells[i] = Alive

\* C7: set_width(w2) / set_height(h2) leave every cell Dead, store the new
\* dimension, keep the other, and size cells to the new width * height.
C7_ResizeClears ==
  /\ (lastOp.op = "set_width" /\ ~panicked)
       => /\ width = lastOp.a /\ height = prevHeight
          /\ LenIs(Len(cells), lastOp.a, height) /\ AllDead(cells)
  /\ (lastOp.op = "set_height" /\ ~panicked)
       => /\ height = lastOp.a /\ width = prevWidth
          /\ LenIs(Len(cells), width, lastOp.a) /\ AllDead(cells)

C7_Witness == lastOp.op = "set_width" /\ ~AllDead(prevCells) /\ width # prevWidth

\* C8: clear() leaves every cell Dead with dimensions and length unchanged,
\* and a second clear() changes nothing.
C8_ClearIdempotent ==
  /\ [](lastOp.op = "clear"
          => /\ AllDead(cells) /\ width = prevWidth /\ height = prevHeight
             /\ Len(cells) = Len(prevCells))
  /\ [][(lastOp.op = "clear" /\ lastOp'.op = "clear")
          => << width, height, cells >>' = << width, height, cells >>]_vars

C8_Witness == lastOp.op = "clear" /\ ~AllDead(prevCells) /\ width # height

\* C9: a 2x2 block alone on the grid is unchanged by tick.
C9_BlockStill == lastOp.op = "tick" => cells = prevCells

C9_Witness == lastOp.op = "tick" /\ width = 8 /\ height = 8 /\ origin = << 1, 1 >>

\* C10: render() yields height lines of width glyphs (U+25FB Dead, U+25FC
\* Alive, UTF-8 encoded) in row-major order, each ended by a newline.
C10_RenderLines ==
  lastOp.op = "render"
    => LET L == 3 * width + 1 IN
       /\ Len(out) = height * L
       /\ \A k \in 0..(height - 1) :
            /\ out[(k + 1) * L] = 10
            /\ \A j \in 0..(width - 1) :
                 SubSeq(out, k * L + 3 * j + 1, k * L + 3 * j + 3)
                   = IF cells[k * width + j + 1] = Dead THEN << 226, 151, 187 >>
                     ELSE << 226, 151, 188 >>

C10_Witness ==
  lastOp.op = "render" /\ height >= 2 /\ width # height /\ ~AllDead(cells)

====
